---- MODULE Spec2Model ----
\* Aurelia ingestion pipeline: the chunk extractor (aurelia/ingestion/parser.py)
\* and the repository walker (aurelia/ingestion/walker.py), with the file
\* classifier and the span slicer they are built on, and the configuration
\* store (src/core/config.py, src/core/model.py).
EXTENDS Integers, Sequences, FiniteSets, TLC

VARIABLES
    items,          \* the kinds of the items the source text is laid out from
    source_code,    \* extract_chunks: the source text, a sequence of characters
    tree,           \* extract_chunks: the tree returned by self.parse
    code_lines,     \* extract_chunks: source_code.splitlines()
    chunks,         \* extract_chunks: the list of chunks built so far / returned
    module_lines,   \* extract_chunks: the pending orphan list
    idx,            \* extract_chunks: position of the loop over root_node.children
    pc,             \* extract_chunks: "idle", "start", "loop", "done" or "raised"
    root_kind,      \* what the given repository path is: "dir", "file" or "missing"
    repo_root,      \* RepoWalker.repo_root: the parts of the resolved absolute path
    fs_files,       \* the files below the root, each the parts of its root-relative path
    gitignore,      \* the lines of the root's .gitignore (when that file exists)
    readable,       \* whether open() succeeds on the root's .gitignore
    ignore_spec,    \* RepoWalker.ignore_spec: None or the compiled patterns
    stack,          \* os.walk: the directories still to be listed
    results,        \* walk: the list of FileInfo built so far / returned
    visited,        \* the directories os.walk has listed so far
    seen,           \* the entries that appeared in those listings
    wpc,            \* RepoWalker: "idle", "new", "invalid", "ready", "walking", "returned"
    given_name,     \* _get_classification: the name of the file handed in, its characters
    classification, \* _get_classification: the value returned
    kpc,            \* _get_classification: "idle", "call" or "returned"
    arg_lines,      \* _get_source_lines: the code_lines argument
    arg_start,      \* _get_source_lines: the start_point argument, <<row, column>>
    arg_end,        \* _get_source_lines: the end_point argument, <<row, column>>
    span_text,      \* _get_source_lines: the text returned
    spc,            \* _get_source_lines: "idle", "call" or "returned"
    config_file,    \* CONFIG_PATH: <<>> (no file) or <<the YAML document stored there>>
    config,         \* <<>> or <<the AureliaConfig last handed to save_config>>
    loaded_config,  \* <<>> or <<the AureliaConfig last returned by load_config>>
    cpc,            \* configuration store: "idle", "start", "saved", "loaded", "raised"
    zpc,            \* run_init_wizard: where the run stands, "idle" when not in use
    answer,         \* confirm_yes_no: <<>> or <<the last line read at the current prompt>>
    invalid,        \* confirm_yes_no: how many lines the current prompt has rejected
    built,          \* run_init_wizard: <<>> or <<the AureliaConfig built from the answers>>
    writes,         \* how many times the run has written CONFIG_PATH
    stored_before   \* what CONFIG_PATH held when the run began

parserVars == <<items, source_code, tree, code_lines, chunks, module_lines, idx, pc>>

walkerVars == <<root_kind, repo_root, fs_files, gitignore, readable, ignore_spec,
                stack, results, visited, seen, wpc>>

classifierVars == <<given_name, classification, kpc>>

slicerVars == <<arg_lines, arg_start, arg_end, span_text, spc>>

configVars == <<config_file, config, loaded_config, cpc>>

wizardVars == <<zpc, answer, invalid, built, writes, stored_before>>

vars == <<parserVars, walkerVars, classifierVars, slicerVars, configVars, wizardVars>>

\* Everything but the parser's, resp. the walker's, variables.
exceptParser == <<walkerVars, classifierVars, slicerVars, configVars, wizardVars>>

exceptWalker == <<parserVars, classifierVars, slicerVars, configVars, wizardVars>>

exceptClassifier == <<parserVars, walkerVars, slicerVars, configVars, wizardVars>>

exceptSlicer == <<parserVars, walkerVars, classifierVars, configVars, wizardVars>>

\* Everything the wizard leaves alone but CONFIG_PATH.
exceptWizard ==
    <<parserVars, walkerVars, classifierVars, slicerVars, config, loaded_config, cpc>>

exceptConfig == <<parserVars, walkerVars, classifierVars, slicerVars, wizardVars>>

\* The parser, resp. the walker, is not in use.
ParserIdle ==
    /\ items = <<>>
    /\ source_code = <<>>
    /\ tree = [root_node |-> [type |-> "module", children |-> <<>>], has_error |-> FALSE]
    /\ code_lines = <<>>
    /\ chunks = <<>>
    /\ module_lines = <<>>
    /\ idx = 1
    /\ pc = "idle"

WalkerIdle ==
    /\ root_kind = "dir"
    /\ repo_root = <<>>
    /\ fs_files = {}
    /\ gitignore = <<>>
    /\ readable = TRUE
    /\ ignore_spec = <<>>
    /\ stack = <<>>
    /\ results = <<>>
    /\ visited = {}
    /\ seen = {}
    /\ wpc = "idle"

\* The classifier, the slicer, resp. the configuration store, is not in use.
ClassifierIdle ==
    /\ given_name = <<>>
    /\ classification = "none"
    /\ kpc = "idle"

SlicerIdle ==
    /\ arg_lines = <<>>
    /\ arg_start = <<0, 0>>
    /\ arg_end = <<0, 0>>
    /\ span_text = <<>>
    /\ spc = "idle"

ConfigIdle ==
    /\ config_file = <<>>
    /\ config = <<>>
    /\ loaded_config = <<>>
    /\ cpc = "idle"

WizardIdle ==
    /\ zpc = "idle"
    /\ answer = <<>>
    /\ invalid = 0
    /\ built = <<>>
    /\ writes = 0
    /\ stored_before = <<>>

\* ---------------------------------------------------------------- bounds

\* Number of top-level items (statements, definitions, separator lines) of a source text.
MaxItems == 3

\* ------------------------------------------------------------ characters

\* A character is a one-character string; EAcute stands for U+00E9, the one
\* character of the alphabet that UTF-8 encodes in two bytes.
NL == "\n"
FF == "\f"
EAcute == "U+00E9"

\* bytes(code, "utf-8"): the number of bytes a character is encoded in.
Utf8Width(c) == IF c = EAcute THEN 2 ELSE 1

Min(a, b) == IF a < b THEN a ELSE b

\* ------------------------------------------------- Python str operations

\* s[a:b] for 0 <= a, 0 <= b: indices count characters and are clamped to len(s).
Slice(s, a, b) == SubSeq(s, Min(a, Len(s)) + 1, Min(b, Len(s)))

\* s[a:]
SliceFrom(s, a) == SubSeq(s, Min(a, Len(s)) + 1, Len(s))

\* s[:b]
SliceTo(s, b) == SubSeq(s, 1, Min(b, Len(s)))

\* The line boundaries of str.splitlines present in the alphabet: "\n" and "\f".
IsLineBreak(c) == c \in {NL, FF}

\* str.splitlines(): split at every line boundary, boundaries dropped, and no
\* final empty line when the text ends with a boundary.
RECURSIVE SplitAcc(_, _, _)
SplitAcc(s, cur, acc) ==
    IF s = <<>> THEN (IF cur = <<>> THEN acc ELSE Append(acc, cur))
    ELSE IF IsLineBreak(Head(s)) THEN SplitAcc(Tail(s), <<>>, Append(acc, cur))
    ELSE SplitAcc(Tail(s), Append(cur, Head(s)), acc)

splitlines(s) == SplitAcc(s, <<>>, <<>>)

\* sep.join(parts) for a one-character separator.
RECURSIVE Join(_, _)
Join(parts, sep) ==
    IF parts = <<>> THEN <<>>
    ELSE IF Len(parts) = 1 THEN parts[1]
    ELSE parts[1] \o <<sep>> \o Join(Tail(parts), sep)

\* ------------------------------------------------------ the AST provider

\* What tree_sitter hands to extract_chunks: a node has a type tag, a span
\* start_point-end_point of (row, column) pairs, rows counted from 0 by "\n"
\* alone and columns counted in bytes of the UTF-8 text, its children, and the
\* child in its field 'name' (None, or the one node of the sequence name_node).
None == <<>>

Leaf(type, sp, ep) ==
    [type |-> type, start_point |-> sp, end_point |-> ep, name_node |-> None, children |-> <<>>]

Def(type, sp, ep, name_sp, name_ep, children) ==
    [type |-> type, start_point |-> sp, end_point |-> ep,
     name_node |-> <<Leaf("identifier", name_sp, name_ep)>>, children |-> children]

Node(type, sp, ep, children) ==
    [type |-> type, start_point |-> sp, end_point |-> ep, name_node |-> None, children |-> children]

\* The grammar engine is an external collaborator: it is modelled by its
\* results. A source text is laid out from top-level items, and both the text
\* (TextOf) and the tree parse returns for it are derived from the items.
\* The top-level items a source text is laid out from: the lines of the item,
\* the root children the grammar yields for it (rows relative to its first
\* line), and whether the tree for it holds an error node.
StmtImport ==
    [lines |-> << <<"i", "m", "p", "o", "r", "t", " ", "o", "s">> >>,
     nodes |-> << Leaf("import_statement", <<0, 0>>, <<0, 9>>) >>, err |-> FALSE]

StmtAssign ==
    [lines |-> << <<"G", "=", "1">> >>,
     nodes |-> << Leaf("expression_statement", <<0, 0>>, <<0, 3>>) >>, err |-> FALSE]

\* two simple statements on one line, the first with a two-byte identifier: the
\* byte columns run ahead of the characters
StmtAccent ==
    [lines |-> << <<EAcute, "=", "1", ";", "y", "=", "2">> >>,
     nodes |-> << Leaf("expression_statement", <<0, 0>>, <<0, 4>>),
                  Leaf("expression_statement", <<0, 5>>, <<0, 8>>) >>, err |-> FALSE]

StmtIf ==
    [lines |-> << <<"i", "f", " ", "x", ":">>, <<" ", " ", "y">> >>,
     nodes |-> << Leaf("if_statement", <<0, 0>>, <<1, 3>>) >>, err |-> FALSE]

FuncDef ==
    [lines |-> << <<"d", "e", "f", " ", "f", "(", ")", ":">>,
                  <<" ", " ", "p", "a", "s", "s">> >>,
     nodes |-> << Def("function_definition", <<0, 0>>, <<1, 6>>, <<0, 4>>, <<0, 5>>, <<>>) >>,
     err |-> FALSE]

\* a decorated function whose name is a two-byte character
DecAccent ==
    [lines |-> << <<"@", "d">>, <<"d", "e", "f", " ", EAcute, "(", ")", ":">>,
                  <<" ", " ", "p", "a", "s", "s">> >>,
     nodes |-> << Node("decorated_definition", <<0, 0>>, <<2, 6>>,
                       << Leaf("decorator", <<0, 0>>, <<0, 2>>),
                          Def("function_definition", <<1, 0>>, <<2, 6>>,
                              <<1, 4>>, <<1, 6>>, <<>>) >>) >>,
     err |-> FALSE]

\* a class with one method
ClassDef ==
    [lines |-> << <<"c", "l", "a", "s", "s", " ", "A", ":">>,
                  <<" ", " ", "d", "e", "f", " ", "m", "(", ")", ":">>,
                  <<" ", " ", " ", " ", "p", "a", "s", "s">> >>,
     nodes |-> << Def("class_definition", <<0, 0>>, <<2, 8>>, <<0, 6>>, <<0, 7>>,
                      << Node("block", <<1, 2>>, <<2, 8>>,
                              << Def("function_definition", <<1, 2>>, <<2, 8>>,
                                     <<1, 6>>, <<1, 7>>, <<>>) >>) >>) >>,
     err |-> FALSE]

DecFunc ==
    [lines |-> << <<"@", "d">>, <<"d", "e", "f", " ", "g", "(", ")", ":">>, <<" ", " ", "p", "a", "s", "s">> >>,
     nodes |-> << Node("decorated_definition", <<0, 0>>, <<2, 6>>,
                       << Leaf("decorator", <<0, 0>>, <<0, 2>>),
                          Def("function_definition", <<1, 0>>, <<2, 6>>,
                              <<1, 4>>, <<1, 5>>, <<>>) >>) >>,
     err |-> FALSE]

DecClass ==
    [lines |-> << <<"@", "d">>, <<"c", "l", "a", "s", "s", " ", "B", ":">>, <<" ", " ", "p", "a", "s", "s">> >>,
     nodes |-> << Node("decorated_definition", <<0, 0>>, <<2, 6>>,
                       << Leaf("decorator", <<0, 0>>, <<0, 2>>),
                          Def("class_definition", <<1, 0>>, <<2, 6>>,
                              <<1, 6>>, <<1, 7>>, <<>>) >>) >>,
     err |-> FALSE]

\* a decorator that no definition follows: a decorated node without a definition child
DecOrphan ==
    [lines |-> << <<"@", "d">> >>,
     nodes |-> << Node("decorated_definition", <<0, 0>>, <<0, 2>>,
                       << Leaf("decorator", <<0, 0>>, <<0, 2>>) >>) >>,
     err |-> TRUE]

\* a definition whose name is missing: no child in the field 'name'
FuncNoName ==
    [lines |-> << <<"d", "e", "f", " ", "(", ")", ":">>, <<" ", " ", "p", "a", "s", "s">> >>,
     nodes |-> << Node("function_definition", <<0, 0>>, <<1, 6>>, <<>>) >>, err |-> TRUE]

ClassNoName ==
    [lines |-> << <<"c", "l", "a", "s", "s", " ", ":">>, <<" ", " ", "p", "a", "s", "s">> >>,
     nodes |-> << Node("class_definition", <<0, 0>>, <<1, 6>>, <<>>) >>, err |-> TRUE]

\* text the grammar rejects: the parser returns a tree with an ERROR node
StmtError ==
    [lines |-> << <<"x", "=", "(">> >>,
     nodes |-> << Leaf("ERROR", <<0, 0>>, <<0, 3>>) >>, err |-> TRUE]

\* an empty line
Blank == [lines |-> << <<>> >>, nodes |-> <<>>, err |-> FALSE]

\* a line holding a form feed (a page break): white space to the grammar
PageBreak == [lines |-> << <<FF>> >>, nodes |-> <<>>, err |-> FALSE]

\* The kinds of item a source text is laid out from.
Catalogue ==
    {"StmtAssign", "StmtAccent", "StmtIf", "FuncDef", "DecAccent", "ClassDef",
     "DecFunc", "DecClass", "DecOrphan", "FuncNoName", "ClassNoName", "StmtError", "Blank",
     "PageBreak"}

Item(kind) ==
    CASE kind = "StmtAssign" -> StmtAssign
      [] kind = "StmtAccent" -> StmtAccent
      [] kind = "StmtIf" -> StmtIf
      [] kind = "FuncDef" -> FuncDef
      [] kind = "DecAccent" -> DecAccent
      [] kind = "ClassDef" -> ClassDef
      [] kind = "DecFunc" -> DecFunc
      [] kind = "DecClass" -> DecClass
      [] kind = "DecOrphan" -> DecOrphan
      [] kind = "FuncNoName" -> FuncNoName
      [] kind = "ClassNoName" -> ClassNoName
      [] kind = "StmtImport" -> StmtImport
      [] kind = "StmtError" -> StmtError
      [] kind = "Blank" -> Blank
      [] kind = "PageBreak" -> PageBreak

\* The source texts: up to MaxItems items, one after the other.
Programs == UNION {[1..n -> Catalogue] : n \in 0..MaxItems}

\* The sample of the parser test: imports, a global assignment, a function and
\* a class with a method, blank lines between them; and the same with one
\* import only.
SampleCode ==
    <<"StmtImport", "StmtImport", "Blank", "StmtAssign", "Blank", "FuncDef", "Blank",
      "ClassDef">>

ScenarioB == <<"StmtImport", "Blank", "StmtAssign", "Blank", "FuncDef", "Blank", "ClassDef">>

ScenarioPrograms == {SampleCode, ScenarioB}

\* The lines of a program, and the text: every line ends with "\n".
RECURSIVE LinesOf(_)
LinesOf(p) == IF p = <<>> THEN <<>> ELSE Item(Head(p)).lines \o LinesOf(Tail(p))

RECURSIVE Terminated(_)
Terminated(ls) == IF ls = <<>> THEN <<>> ELSE Head(ls) \o <<NL>> \o Terminated(Tail(ls))

TextOf(p) == Terminated(LinesOf(p))

\* A node moved down by off rows.
ShiftPoint(pt, off) == <<pt[1] + off, pt[2]>>

RECURSIVE ShiftNode(_, _)
ShiftNode(n, off) ==
    [type |-> n.type,
     start_point |-> ShiftPoint(n.start_point, off),
     end_point |-> ShiftPoint(n.end_point, off),
     name_node |-> [i \in 1..Len(n.name_node) |-> ShiftNode(n.name_node[i], off)],
     children |-> [i \in 1..Len(n.children) |-> ShiftNode(n.children[i], off)]]

RECURSIVE ChildrenOf(_, _)
ChildrenOf(p, off) ==
    IF p = <<>> THEN <<>>
    ELSE [i \in 1..Len(Item(Head(p)).nodes) |-> ShiftNode(Item(Head(p)).nodes[i], off)]
         \o ChildrenOf(Tail(p), off + Len(Item(Head(p)).lines))

\* self.parser.parse(bytes(code, "utf-8")): always returns a tree; a grammar
\* error is recorded in the tree (has_error, ERROR nodes), it is not raised.
parse(p) ==
    [root_node |-> [type |-> "module", children |-> ChildrenOf(p, 0)],
     has_error |-> \E i \in 1..Len(p) : Item(p[i]).err]

\* ------------------------------------------------ AureliaParser (parser.py)

\* ChunkType
MODULE_T == "module"
CLASS_T == "class"
FUNCTION_T == "function"

\* A fixed name is a text of one token.
Literal(str) == <<str>>

\* code_lines[row] is defined: no IndexError.
RowsInRange(lines, start_point, end_point) ==
    start_point[1] < Len(lines) /\ end_point[1] < Len(lines)

\* _get_source_lines leaving out the interior lines of a multi-row span.
get_source_lines_no_interior(lines, start_point, end_point) ==
    LET start_row == start_point[1]
        start_col == start_point[2]
        end_row == end_point[1]
        end_col == end_point[2]
    IN  IF start_row = end_row
        THEN Slice(lines[start_row + 1], start_col, end_col)
        ELSE Join(<<SliceFrom(lines[start_row + 1], start_col)>>
                  \o <<SliceTo(lines[end_row + 1], end_col)>>, NL)

\* AureliaParser._get_source_lines
get_source_lines(lines, start_point, end_point) ==
    LET start_row == start_point[1]
        start_col == start_point[2]
        end_row == end_point[1]
        end_col == end_point[2]
    IN  IF start_row = end_row
        THEN Slice(lines[start_row + 1], start_col, end_col)
        ELSE Join(<<SliceFrom(lines[start_row + 1], start_col)>>
                  \o [i \in 1..(end_row - start_row - 1) |-> lines[start_row + 1 + i]]
                  \o <<SliceTo(lines[end_row + 1], end_col)>>, NL)

\* StartLine without the + 1: the 0-indexed row reported as the line.
StartLineRaw(child) == child.start_point[1]

\* Lines are 0-indexed in tree-sitter, so we add 1 for humans.
StartLine(child) == child.start_point[1] + 1

EndLine(child) == child.end_point[1] + 1

IsDefinitionType(type) == type \in {"function_definition", "class_definition"}

\* Resolve decorated definitions to their inner function/class definition.
actual_node(child) ==
    IF child.type = "decorated_definition"
       /\ \E i \in 1..Len(child.children) : IsDefinitionType(child.children[i].type)
    THEN child.children[CHOOSE i \in 1..Len(child.children) :
                            /\ IsDefinitionType(child.children[i].type)
                            /\ \A j \in 1..(i - 1) : ~IsDefinitionType(child.children[j].type)]
    ELSE child

\* NameOf without the fall-back: a missing name child yields an empty name.
NameOfNoFallback(lines, node, placeholder) ==
    IF node.name_node # None
    THEN get_source_lines(lines, node.name_node[1].start_point, node.name_node[1].end_point)
    ELSE <<>>

\* The text of the name child, or the placeholder.
NameOf(lines, node, placeholder) ==
    IF node.name_node # None
    THEN get_source_lines(lines, node.name_node[1].start_point, node.name_node[1].end_point)
    ELSE Literal(placeholder)

\* TopLevel descending into nested scopes: every node of the tree, in document order.
RECURSIVE Flatten(_)
Flatten(nodes) ==
    IF nodes = <<>> THEN <<>>
    ELSE <<Head(nodes)>> \o Flatten(Head(nodes).children) \o Flatten(Tail(nodes))

AllNodes(t) == Flatten(t.root_node.children)

\* The children the loop goes over: the direct children of the root node.
TopLevel(t) == t.root_node.children

\* One pass of the loop body: the lists after it.
AfterChild(lines, child, cs, ms) ==
    LET node_text == get_source_lines(lines, child.start_point, child.end_point)
        start_line == StartLine(child)
        end_line == EndLine(child)
        actual == actual_node(child)
    IN  IF actual.type = "function_definition"
        THEN [chunks |-> Append(cs, [type |-> FUNCTION_T,
                                     name |-> NameOf(lines, actual, "unknown_function"),
                                     content |-> node_text,
                                     start_line |-> start_line,
                                     end_line |-> end_line]),
              module_lines |-> ms]
        ELSE IF actual.type = "class_definition"
        THEN [chunks |-> Append(cs, [type |-> CLASS_T,
                                     name |-> NameOf(lines, actual, "unknown_class"),
                                     content |-> node_text,
                                     start_line |-> start_line,
                                     end_line |-> end_line]),
              module_lines |-> ms]
        ELSE [chunks |-> cs,
              module_lines |-> Append(ms, [type |-> MODULE_T,
                                           content |-> node_text,
                                           start_line |-> start_line,
                                           end_line |-> end_line])]

\* The chunk made of the module-level orphaned code.
ModuleChunk(ms) ==
    [type |-> MODULE_T,
     name |-> Literal("module_level"),
     content |-> Join([i \in 1..Len(ms) |-> ms[i].content], NL),
     start_line |-> ms[1].start_line,
     end_line |-> ms[Len(ms)].end_line]

\* WithModule emitting one Module chunk per orphan node instead of one in all.
WithModuleEach(cs, ms) ==
    [i \in 1..Len(ms) |-> [type |-> MODULE_T, name |-> Literal("module_level"),
                           content |-> ms[i].content, start_line |-> ms[i].start_line,
                           end_line |-> ms[i].end_line]] \o cs

\* WithModule appending the Module chunk instead of inserting it at index 0.
WithModuleLast(cs, ms) == IF ms # <<>> THEN cs \o <<ModuleChunk(ms)>> ELSE cs

\* if module_lines: chunks.insert(0, ...)
WithModule(cs, ms) == IF ms # <<>> THEN <<ModuleChunk(ms)>> \o cs ELSE cs

\* tree = self.parse(source_code); code_lines = source_code.splitlines()
Parse ==
    /\ pc = "start"
    /\ tree' = parse(items)
    /\ code_lines' = splitlines(source_code)
    /\ chunks' = <<>>
    /\ module_lines' = <<>>
    /\ idx' = 1
    /\ pc' = "loop"
    /\ UNCHANGED <<items, source_code, exceptParser>>

\* for child in root_node.children: ...
ProcessChild ==
    /\ pc = "loop"
    /\ idx <= Len(TopLevel(tree))
    /\ LET child == TopLevel(tree)[idx]
           actual == actual_node(child)
           ok == /\ RowsInRange(code_lines, child.start_point, child.end_point)
                 /\ \/ ~IsDefinitionType(actual.type)
                    \/ actual.name_node = None
                    \/ RowsInRange(code_lines, actual.name_node[1].start_point,
                                   actual.name_node[1].end_point)
       IN  IF ok
           THEN LET after == AfterChild(code_lines, child, chunks, module_lines)
                IN  /\ chunks' = after.chunks
                    /\ module_lines' = after.module_lines
                    /\ idx' = idx + 1
                    /\ pc' = pc
           ELSE /\ pc' = "raised"
                /\ UNCHANGED <<chunks, module_lines, idx>>
    /\ UNCHANGED <<items, source_code, tree, code_lines, exceptParser>>

\* if module_lines: ...; return chunks
Return ==
    /\ pc = "loop"
    /\ idx > Len(TopLevel(tree))
    /\ chunks' = WithModule(chunks, module_lines)
    /\ pc' = "done"
    /\ UNCHANGED <<items, source_code, tree, code_lines, module_lines, idx, exceptParser>>

InitParser ==
    /\ items \in Programs \cup ScenarioPrograms
    /\ source_code = TextOf(items)
    /\ tree = [root_node |-> [type |-> "module", children |-> <<>>], has_error |-> FALSE]
    /\ code_lines = <<>>
    /\ chunks = <<>>
    /\ module_lines = <<>>
    /\ idx = 1
    /\ pc = "start"
    /\ WalkerIdle
    /\ ClassifierIdle
    /\ SlicerIdle
    /\ ConfigIdle
    /\ WizardIdle

NextParser == Parse \/ ProcessChild \/ Return

SpecParser == InitParser /\ [][NextParser]_vars

\* ------------------------------------------- properties of extract_chunks

\* The root's children as the AST provider returned them.
RootChildren == tree.root_node.children

\* A root child that is, after decorator resolution, a function or class definition.
IsDefChild(child) ==
    \/ IsDefinitionType(child.type)
    \/ /\ child.type = "decorated_definition"
       /\ \E i \in 1..Len(child.children) : IsDefinitionType(child.children[i].type)

IsOrphanChild(child) == ~IsDefChild(child)

DefChildren == SelectSeq(RootChildren, IsDefChild)

OrphanChildren == SelectSeq(RootChildren, IsOrphanChild)

IsModuleChunk(c) == c.type = MODULE_T

IsDefChunk(c) == c.type \in {FUNCTION_T, CLASS_T}

ModuleChunks == SelectSeq(chunks, IsModuleChunk)

DefChunks == SelectSeq(chunks, IsDefChunk)

Returned == pc = "done"

\* C1: extract_chunks returns exactly one Module chunk if some direct child of the
\* root is, after decorator resolution, neither a function nor a class
\* definition, and no Module chunk otherwise.
C1_OneModuleIffOrphan ==
    Returned => Len(ModuleChunks) = (IF OrphanChildren # <<>> THEN 1 ELSE 0)

\* C1 witness: several orphan nodes around a definition, returned as one Module chunk.
C1_Witness ==
    /\ Returned
    /\ Len(OrphanChildren) >= 2
    /\ DefChildren # <<>>
    /\ Len(ModuleChunks) = 1

\* C2: the Module chunk, when present, is at index 0 and the Function/Class chunks
\* follow in the order of their nodes among the root's children.
C2_ModuleFirstDocumentOrder ==
    Returned =>
        /\ \A i \in 1..Len(chunks) : IsModuleChunk(chunks[i]) => i = 1
        /\ Len(DefChunks) = Len(DefChildren)
        /\ \A k \in 1..Len(DefChunks) :
               /\ DefChunks[k].start_line = DefChildren[k].start_point[1] + 1
               /\ DefChunks[k].end_line = DefChildren[k].end_point[1] + 1
        /\ \A k \in 1..(Len(chunks) - 1) :
               IsDefChunk(chunks[k]) => IsDefChunk(chunks[k + 1])

\* C2 witness: the only orphan node sits after two definitions, and the Module
\* chunk is still first.
C2_Witness ==
    /\ Returned
    /\ Len(DefChunks) = 2
    /\ Len(OrphanChildren) = 1
    /\ IsDefChild(RootChildren[1])
    /\ IsModuleChunk(chunks[1])
    /\ chunks[1].start_line > chunks[3].end_line

\* C3 as claimed: the line spans of any two distinct returned chunks, the Module
\* chunk included, do not overlap.
C3_NoTwoChunksOverlap ==
    Returned =>
        \A i, j \in 1..Len(chunks) :
            i # j => \/ chunks[i].end_line < chunks[j].start_line
                     \/ chunks[j].end_line < chunks[i].start_line

C5_LinesAreRowsPlusOne ==
    Returned =>
        /\ \A i \in 1..Len(chunks) :
               chunks[i].start_line >= 1 /\ chunks[i].start_line <= chunks[i].end_line
        /\ Len(DefChunks) = Len(DefChildren)
        /\ \A k \in 1..Len(DefChunks) :
               /\ DefChunks[k].start_line = DefChildren[k].start_point[1] + 1
               /\ DefChunks[k].end_line = DefChildren[k].end_point[1] + 1
        /\ \A k \in 1..Len(ModuleChunks) :
               /\ OrphanChildren # <<>>
               /\ ModuleChunks[k].start_line = OrphanChildren[1].start_point[1] + 1
               /\ ModuleChunks[k].end_line =
                      OrphanChildren[Len(OrphanChildren)].end_point[1] + 1

\* C5 witness: a definition on row 0 reported as starting on line 1, with a Module
\* chunk of several lines.
C5_Witness ==
    /\ Returned
    /\ Len(chunks) >= 2
    /\ IsModuleChunk(chunks[1])
    /\ chunks[1].start_line < chunks[1].end_line
    /\ chunks[2].start_line = 1
    /\ DefChildren[1].start_point[1] = 0

\* The original source in the coordinates of the spans: its rows are the pieces
\* between "\n" characters, a column is a count of UTF-8 bytes.
RECURSIVE RowsAcc(_, _, _)
RowsAcc(s, cur, acc) ==
    IF s = <<>> THEN Append(acc, cur)
    ELSE IF Head(s) = NL THEN RowsAcc(Tail(s), <<>>, Append(acc, cur))
    ELSE RowsAcc(Tail(s), Append(cur, Head(s)), acc)

SourceRows == RowsAcc(source_code, <<>>, <<>>)

\* The characters of a row that lie in the byte columns [a, b).
RECURSIVE ByteSlice(_, _, _, _)
ByteSlice(row, at, a, b) ==
    IF row = <<>> THEN <<>>
    ELSE (IF at >= a /\ at + Utf8Width(Head(row)) <= b THEN <<Head(row)>> ELSE <<>>)
         \o ByteSlice(Tail(row), at + Utf8Width(Head(row)), a, b)

RECURSIVE ByteLen(_)
ByteLen(row) == IF row = <<>> THEN 0 ELSE Utf8Width(Head(row)) + ByteLen(Tail(row))

\* Lines start_point[0]..end_point[0] of the original source, the first trimmed
\* to start at the start column and the last to end at the end column.
Reslice(start_point, end_point) ==
    LET rows == SourceRows
        r1 == start_point[1] + 1
        r2 == end_point[1] + 1
    IN  IF r1 = r2
        THEN ByteSlice(rows[r1], 0, start_point[2], end_point[2])
        ELSE Join(<<ByteSlice(rows[r1], 0, start_point[2], ByteLen(rows[r1]))>>
                  \o [i \in 1..(r2 - r1 - 1) |-> rows[r1 + i]]
                  \o <<ByteSlice(rows[r2], 0, 0, end_point[2])>>, NL)

\* C6 as claimed: re-slicing the original source by a returned chunk's lines and
\* start/end columns reproduces the chunk's content: for a Function or Class
\* chunk the span of its node, for the Module chunk from the start of the first
\* orphan node to the end of the last.
C6_RoundTrip ==
    Returned =>
        /\ \A k \in 1..Len(DefChunks) :
               DefChunks[k].content =
                   Reslice(DefChildren[k].start_point, DefChildren[k].end_point)
        /\ \A k \in 1..Len(ModuleChunks) :
               ModuleChunks[k].content =
                   Reslice(OrphanChildren[1].start_point,
                           OrphanChildren[Len(OrphanChildren)].end_point)

\* The first function or class definition among a node's children (the node
\* itself if there is none).
InnerDefinition(child) ==
    IF \E i \in 1..Len(child.children) : IsDefinitionType(child.children[i].type)
    THEN child.children[CHOOSE i \in 1..Len(child.children) :
                            /\ IsDefinitionType(child.children[i].type)
                            /\ \A j \in 1..(i - 1) : ~IsDefinitionType(child.children[j].type)]
    ELSE child

\* The number of definitions among the first n root children.
DefRank(n) == Len(SelectSeq(SubSeq(RootChildren, 1, n), IsDefChild))

\* C7 as claimed: the chunk of a top-level decorated definition has the type and
\* the name of the first function or class definition among the decorated
\* node's children, and its content and lines are those of the whole decorated
\* node, decorator lines included; a decorated node without such a child is
\* orphan code.
C7_DecoratedDefinition ==
    Returned =>
        /\ Len(DefChunks) = Len(DefChildren)
        /\ \A n \in 1..Len(RootChildren) :
               LET child == RootChildren[n]
                   inner == InnerDefinition(child)
                   chunk == DefChunks[DefRank(n)]
               IN  (child.type = "decorated_definition" /\ IsDefChild(child)) =>
                       /\ chunk.type = (IF inner.type = "function_definition"
                                        THEN FUNCTION_T ELSE CLASS_T)
                       /\ chunk.name = Reslice(inner.name_node[1].start_point,
                                               inner.name_node[1].end_point)
                       /\ chunk.content = Reslice(child.start_point, child.end_point)
                       /\ chunk.start_line = child.start_point[1] + 1
                       /\ chunk.end_line = child.end_point[1] + 1
        /\ (\E n \in 1..Len(RootChildren) :
                RootChildren[n].type = "decorated_definition" /\ ~IsDefChild(RootChildren[n]))
               => Len(ModuleChunks) = 1

\* C8 as claimed: when the AST provider cannot parse the source text,
\* extract_chunks returns no chunk sequence.
C8_NoChunksFromErrorTree == Returned => ~tree.has_error

\* --------------------------------------------------- RepoWalker (walker.py)

\* File and directory names are atomic; Spell gives the characters of a name
\* or of a line of the ignore file.
Spell(name) ==
    CASE name = "/" -> <<"/">>
      [] name = "home" -> <<"h", "o", "m", "e">>
      [] name = "repo" -> <<"r", "e", "p", "o">>
      [] name = "pkg" -> <<"p", "k", "g">>
      [] name = "build" -> <<"b", "u", "i", "l", "d">>
      [] name = ".cache" -> <<".", "c", "a", "c", "h", "e">>
      [] name = "a.py" -> <<"a", ".", "p", "y">>
      [] name = ".gitignore" -> <<".", "g", "i", "t", "i", "g", "n", "o", "r", "e">>
      [] name = ".git" -> <<".", "g", "i", "t">>
      [] name = "pkg/" -> <<"p", "k", "g", "/">>
      [] name = "*.py" -> <<"*", ".", "p", "y">>
      [] name = "!a.py" -> <<"!", "a", ".", "p", "y">>
      [] name = "*" -> <<"*">>
      [] name = "main.py" -> <<"m", "a", "i", "n", ".", "p", "y">>
      [] name = "utils.py" -> <<"u", "t", "i", "l", "s", ".", "p", "y">>
      [] name = "README.md" -> <<"R", "E", "A", "D", "M", "E", ".", "m", "d">>
      [] name = "pyproject.toml" ->
             <<"p", "y", "p", "r", "o", "j", "e", "c", "t", ".", "t", "o", "m", "l">>
      [] name = "config.yaml" -> <<"c", "o", "n", "f", "i", "g", ".", "y", "a", "m", "l">>
      [] name = "image.png" -> <<"i", "m", "a", "g", "e", ".", "p", "n", "g">>
      [] name = "data.csv" -> <<"d", "a", "t", "a", ".", "c", "s", "v">>
      [] name = "poetry.lock" -> <<"p", "o", "e", "t", "r", "y", ".", "l", "o", "c", "k">>
      [] name = "secret.key" -> <<"s", "e", "c", "r", "e", "t", ".", "k", "e", "y">>
      [] name = "debug.log" -> <<"d", "e", "b", "u", "g", ".", "l", "o", "g">>
      [] name = "ignored_folder" ->
             <<"i", "g", "n", "o", "r", "e", "d", "_", "f", "o", "l", "d", "e", "r">>
      [] name = "should_not_see_this.py" ->
             <<"s", "h", "o", "u", "l", "d", "_", "n", "o", "t", "_", "s", "e", "e", "_",
             "t", "h", "i", "s", ".", "p", "y">>
      [] name = "config" -> <<"c", "o", "n", "f", "i", "g">>
      [] name = "__pycache__" -> <<"_", "_", "p", "y", "c", "a", "c", "h", "e", "_", "_">>
      [] name = "main.cpython-310.pyc" ->
             <<"m", "a", "i", "n", ".", "c", "p", "y", "t", "h", "o", "n", "-", "3", "1",
             "0", ".", "p", "y", "c">>
      [] name = "ignored_folder/" ->
             <<"i", "g", "n", "o", "r", "e", "d", "_", "f", "o", "l", "d", "e", "r", "/">>
      [] name = "*.log" -> <<"*", ".", "l", "o", "g">>
      [] name = "..\\x" -> <<".", ".", "\\", "x">>

\* The largest number of files below the root.
MaxFiles == 2

\* The directory names, the file names and the directories (root-relative, at
\* most two levels deep) of the file systems walked. (One file name holds a
\* backslash, an ordinary character of a POSIX file name.)
DirNames == {"pkg", "build", ".cache"}

FileNames == {"a.py", "build", ".gitignore", "..\\x"}

DirPaths ==
    {<<>>} \cup {<<d>> : d \in DirNames} \cup {<<d, e>> : d, e \in DirNames}

CandidateFiles == {d \o <<f>> : d \in DirPaths, f \in FileNames}

IsPrefix(a, b) == Len(a) <= Len(b) /\ SubSeq(b, 1, Len(a)) = a

IsProperPrefix(a, b) == Len(a) < Len(b) /\ SubSeq(b, 1, Len(a)) = a

\* No path is a file and a directory at once.
WellFormed(files) == \A f, g \in files : ~IsProperPrefix(f, g)

\* The subsets of S with at most k elements.
RECURSIVE SubsetsUpTo(_, _)
SubsetsUpTo(S, k) ==
    IF k = 0 THEN {{}}
    ELSE LET smaller == SubsetsUpTo(S, k - 1)
         IN  smaller \cup {T \cup {x} : T \in smaller, x \in S}

FileSystems == {files \in SubsetsUpTo(CandidateFiles, MaxFiles) : WellFormed(files)}

\* The contents of the root's ignore file that are tried.
IgnoreFiles ==
    {<<>>, <<"pkg/">>, <<"*.py">>, <<"pkg/", "!a.py">>, <<"*.py", "!a.py">>}

\* The mock repository of the walker test, and its ignore file.
ScenarioA ==
    {<<".gitignore">>, <<"main.py">>, <<"utils.py">>, <<"README.md">>, <<"pyproject.toml">>,
     <<"config.yaml">>, <<"image.png">>, <<"data.csv">>, <<"poetry.lock">>,
     <<"ignored_folder", "should_not_see_this.py">>, <<"secret.key">>, <<"debug.log">>,
     <<".git", "config">>, <<"__pycache__", "main.cpython-310.pyc">>}

ScenarioIgnore == <<"ignored_folder/", "secret.key", "*.log">>

\* Where the repository root lies.
RootLocations == {<<"/", "home", "repo">>, <<"/", "build", "repo">>, <<"/", "home", "build">>}

\* The order in which the file system lists the entries of a directory.
ListingOrder ==
    <<".cache", ".git", ".gitignore", "..\\x", "README.md", "__pycache__", "a.py", "build",
      "config", "config.yaml", "data.csv", "debug.log", "ignored_folder", "image.png",
      "main.cpython-310.pyc", "main.py", "pkg", "poetry.lock", "pyproject.toml",
      "secret.key", "should_not_see_this.py", "utils.py">>

\* The sub-directories and the files of the directory rel (root-relative parts).
SubDirs(files, rel) ==
    {f[Len(rel) + 1] : f \in {g \in files : IsProperPrefix(rel, g) /\ Len(g) > Len(rel) + 1}}

FilesIn(files, rel) ==
    {f[Len(rel) + 1] : f \in {g \in files : IsProperPrefix(rel, g) /\ Len(g) = Len(rel) + 1}}

InOrder(S) == SelectSeq(ListingOrder, LAMBDA n : n \in S)

\* FileClassification
PARSE == "parse"
MARKDOWN == "markdown"
CONFIG == "config"
SKIP == "skip"

ALWAYS_IGNORE_DIRS ==
    {".git", "__pycache__", "node_modules", ".venv", "venv", "env", "build", "dist",
     ".idea", ".vscode"}

BINARY_EXTENSIONS ==
    {<<".", "p", "n", "g">>,
     <<".", "j", "p", "g">>,
     <<".", "j", "p", "e", "g">>,
     <<".", "g", "i", "f">>,
     <<".", "i", "c", "o">>,
     <<".", "p", "d", "f">>,
     <<".", "e", "x", "e">>,
     <<".", "d", "l", "l">>,
     <<".", "s", "o">>,
     <<".", "d", "y", "l", "i", "b">>,
     <<".", "z", "i", "p">>,
     <<".", "t", "a", "r">>,
     <<".", "g", "z">>,
     <<".", "p", "y", "c">>,
     <<".", "p", "y", "o">>,
     <<".", "p", "y", "d">>,
     <<".", "m", "p", "3">>,
     <<".", "m", "p", "4">>,
     <<".", "w", "m", "v">>}

LOCK_FILES ==
    {<<"p", "a", "c", "k", "a", "g", "e", "-", "l", "o", "c", "k", ".", "j", "s", "o", "n">>,
     <<"y", "a", "r", "n", ".", "l", "o", "c", "k">>,
     <<"p", "o", "e", "t", "r", "y", ".", "l", "o", "c", "k">>,
     <<"P", "i", "p", "f", "i", "l", "e", ".", "l", "o", "c", "k">>,
     <<"C", "a", "r", "g", "o", ".", "l", "o", "c", "k">>}

\* str.lower() on the letters of the alphabet.
LowerChar(c) ==
    CASE c = "A" -> "a" [] c = "B" -> "b" [] c = "C" -> "c" [] c = "D" -> "d" [] c = "E" -> "e" [] c = "F" -> "f"
      [] c = "G" -> "g" [] c = "H" -> "h" [] c = "I" -> "i" [] c = "J" -> "j" [] c = "K" -> "k" [] c = "L" -> "l"
      [] c = "M" -> "m" [] c = "N" -> "n" [] c = "O" -> "o" [] c = "P" -> "p" [] c = "Q" -> "q" [] c = "R" -> "r"
      [] c = "S" -> "s" [] c = "T" -> "t" [] c = "U" -> "u" [] c = "V" -> "v" [] c = "W" -> "w" [] c = "X" -> "x"
      [] c = "Y" -> "y" [] c = "Z" -> "z"
      [] OTHER -> c

lower(s) == [i \in 1..Len(s) |-> LowerChar(s[i])]

\* s.startswith('.')
StartsWithDot(s) == Len(s) >= 1 /\ s[1] = "."

\* PurePath.suffix: the name from its last dot on, unless that dot is the first
\* or the last character.
LastDot(s) ==
    IF \E i \in 1..Len(s) : s[i] = "."
    THEN CHOOSE i \in 1..Len(s) : s[i] = "." /\ \A j \in (i + 1)..Len(s) : s[j] # "."
    ELSE 0

suffix(s) == IF 1 < LastDot(s) /\ LastDot(s) < Len(s) THEN SubSeq(s, LastDot(s), Len(s)) ELSE <<>>

\* _get_classification with the lock-file test on the name as given.
get_classification_raw_name(file_name) ==
    LET ext == lower(suffix(file_name))
    IN  IF ext \in BINARY_EXTENSIONS \/ file_name \in LOCK_FILES THEN SKIP
        ELSE IF ext = <<".", "p", "y">> THEN PARSE
        ELSE IF ext = <<".", "m", "d">> THEN MARKDOWN
        ELSE IF ext \in {<<".", "y", "a", "m", "l">>, <<".", "y", "m", "l">>,
                         <<".", "t", "o", "m", "l">>, <<".", "j", "s", "o", "n">>,
                         <<".", "c", "f", "g">>, <<".", "i", "n", "i">>} THEN CONFIG
        ELSE SKIP

\* RepoWalker._get_classification, on the characters of the file's name.
get_classification(file_name) ==
    LET ext == lower(suffix(file_name))
        name == lower(file_name)
    IN  IF ext \in BINARY_EXTENSIONS \/ name \in LOCK_FILES THEN SKIP
        ELSE IF ext = <<".", "p", "y">> THEN PARSE
        ELSE IF ext = <<".", "m", "d">> THEN MARKDOWN
        ELSE IF ext \in {<<".", "y", "a", "m", "l">>, <<".", "y", "m", "l">>,
                         <<".", "t", "o", "m", "l">>, <<".", "j", "s", "o", "n">>,
                         <<".", "c", "f", "g">>, <<".", "i", "n", "i">>} THEN CONFIG
        ELSE SKIP

\* RepoWalker._is_explicitly_ignored, on the parts of an absolute path.
is_explicitly_ignored(path) ==
    \/ \E i \in 1..Len(path) : path[i] \in ALWAYS_IGNORE_DIRS
    \/ path[Len(path)] = ".gitignore"
    \/ path[Len(path)] = ".git"

\* One line of the ignore file compiled as a gitwildmatch pattern: "!" negates,
\* a trailing "/" restricts the pattern to directories, "*" stands for any
\* characters but "/". (Lines without an inner "/": they match at any depth.)
IsPatternLine(line) == line # <<>> /\ line[1] # "#"

Pattern(line) ==
    LET negated == line[1] = "!"
        body == IF negated THEN Tail(line) ELSE line
        dir_only == body # <<>> /\ body[Len(body)] = "/"
    IN  [include |-> ~negated,
         dir_only |-> dir_only,
         glob |-> IF dir_only THEN SubSeq(body, 1, Len(body) - 1) ELSE body]

RECURSIVE GlobMatch(_, _)
GlobMatch(glob, name) ==
    IF glob = <<>> THEN name = <<>>
    ELSE IF Head(glob) = "*"
    THEN \E k \in 0..Len(name) : GlobMatch(Tail(glob), SubSeq(name, k + 1, Len(name)))
    ELSE name # <<>> /\ Head(name) = Head(glob) /\ GlobMatch(Tail(glob), Tail(name))

\* pathspec.PathSpec.from_lines('gitwildmatch', f)
from_lines(lines) ==
    LET kept == SelectSeq(lines, LAMBDA l : IsPatternLine(Spell(l)))
    IN  [i \in 1..Len(kept) |-> Pattern(Spell(kept[i]))]

\* The components of a "/"-separated path.
RECURSIVE SplitPath(_, _, _)
SplitPath(s, cur, acc) ==
    IF s = <<>> THEN Append(acc, cur)
    ELSE IF Head(s) = "/" THEN SplitPath(Tail(s), <<>>, Append(acc, cur))
    ELSE SplitPath(Tail(s), Append(cur, Head(s)), acc)

PatternMatches(pat, comps) ==
    \E i \in 1..Len(comps) :
        GlobMatch(pat.glob, comps[i]) /\ (pat.dir_only => i < Len(comps))

\* PathSpec.match_file: the last pattern that matches the path decides.
match_file(spec, rel_path_str) ==
    LET comps == SplitPath(rel_path_str, <<>>, <<>>)
        hits == {i \in 1..Len(spec) : PatternMatches(spec[i], comps)}
    IN  hits # {} /\ spec[CHOOSE i \in hits : \A j \in hits : j <= i].include

\* _load_gitignore failing closed: a read failure yields a matcher that
\* matches every path.
load_gitignore_fail_closed(files, lines, can_read) ==
    IF <<".gitignore">> \in files
    THEN IF can_read THEN from_lines(lines) ELSE from_lines(<<"*">>)
    ELSE None

\* RepoWalker._load_gitignore: None when the root has no .gitignore or reading
\* it fails. (None and a PathSpec without patterns are both false in walk's
\* "if self.ignore_spec and ...": both are the empty sequence here.)
load_gitignore(files, lines, can_read) ==
    IF <<".gitignore">> \in files /\ can_read THEN from_lines(lines) ELSE None

\* str(file_path.relative_to(self.repo_root)).replace('\\', '/'); the
\* sequence is empty when relative_to raises ValueError.
IsRelativeTo(path, root) == IsPrefix(root, path)

rel_path_str(path, root) ==
    LET rel == SubSeq(path, Len(root) + 1, Len(path))
        str == Join([i \in 1..Len(rel) |-> Spell(rel[i])], "/")
    IN  [i \in 1..Len(str) |-> IF str[i] = "\\" THEN "/" ELSE str[i]]

\* dirs[:] without the pruning: every sub-directory is descended into.
NoPrune(dirs) == dirs

\* dirs[:] = [d for d in dirs if not d.startswith('.') and d not in ALWAYS_IGNORE_DIRS]
PruneDirs(dirs) ==
    SelectSeq(dirs, LAMBDA d : ~StartsWithDot(Spell(d)) /\ d \notin ALWAYS_IGNORE_DIRS)

\* The ignore-file check with its test inverted.
IgnoredBySpecInverted(spec, str) == spec # None /\ ~match_file(spec, str)

\* if self.ignore_spec and self.ignore_spec.match_file(rel_path_str): continue
IgnoredBySpec(spec, str) == spec # None /\ match_file(spec, str)

\* The body of "for file_name in files": whether the file is appended.
Accepted(file_path, root, spec) ==
    /\ ~is_explicitly_ignored(file_path)
    /\ IsRelativeTo(file_path, root)
    /\ ~IgnoredBySpec(spec, rel_path_str(file_path, root))

FileInfo(file_path, root) ==
    [absolute_path |-> file_path,
     relative_path |-> rel_path_str(file_path, root),
     classification |-> get_classification(Spell(file_path[Len(file_path)]))]

\* The FileInfo appended for the files of one directory, in listing order.
ProcessFiles(root_path, files, root, spec) ==
    LET kept == SelectSeq(files, LAMBDA f : Accepted(root_path \o <<f>>, root, spec))
    IN  [i \in 1..Len(kept) |-> FileInfo(root_path \o <<kept[i]>>, root)]

\* Path.exists() in the place of Path.is_dir().
exists(kind) == kind # "missing"

\* self.repo_root.is_dir()
is_dir(kind) == kind = "dir"

\* RepoWalker.__init__
Construct ==
    /\ wpc = "new"
    /\ IF ~is_dir(root_kind)
       THEN wpc' = "invalid" /\ UNCHANGED ignore_spec
       ELSE /\ ignore_spec' = load_gitignore(fs_files, gitignore, readable)
            /\ wpc' = "ready"
    /\ UNCHANGED <<root_kind, repo_root, fs_files, gitignore, readable, stack, results,
                   visited, seen, exceptWalker>>

\* walk: results = []; os.walk(self.repo_root, followlinks=False)
StartWalk ==
    /\ wpc = "ready"
    /\ results' = <<>>
    /\ stack' = <<repo_root>>
    /\ wpc' = "walking"
    /\ UNCHANGED <<root_kind, repo_root, fs_files, gitignore, readable, ignore_spec,
                   visited, seen, exceptWalker>>

\* One pass of "for root, dirs, files in os.walk(...)": os.walk lists the next
\* directory, the body prunes dirs in place and goes over files, and os.walk
\* will descend into what is left of dirs.
WalkStep ==
    /\ wpc = "walking"
    /\ stack # <<>>
    /\ LET root_path == Head(stack)
           here == SubSeq(root_path, Len(repo_root) + 1, Len(root_path))
           dirs == InOrder(SubDirs(fs_files, here))
           files == InOrder(FilesIn(fs_files, here))
           left == PruneDirs(dirs)
       IN  /\ visited' = visited \cup {root_path}
           /\ seen' = seen \cup {root_path \o <<n>> :
                                    n \in SubDirs(fs_files, here) \cup FilesIn(fs_files, here)}
           /\ results' = results \o ProcessFiles(root_path, files, repo_root, ignore_spec)
           /\ stack' = [i \in 1..Len(left) |-> root_path \o <<left[i]>>] \o Tail(stack)
    /\ UNCHANGED <<root_kind, repo_root, fs_files, gitignore, readable, ignore_spec, wpc,
                   exceptWalker>>

\* return results
WalkReturn ==
    /\ wpc = "walking"
    /\ stack = <<>>
    /\ wpc' = "returned"
    /\ UNCHANGED <<root_kind, repo_root, fs_files, gitignore, readable, ignore_spec,
                   stack, results, visited, seen, exceptWalker>>

InitWalker ==
    /\ root_kind \in {"dir", "file", "missing"}
    /\ repo_root \in RootLocations
    /\ fs_files \in (IF root_kind = "dir" THEN FileSystems \cup {ScenarioA} ELSE {{}})
    /\ readable \in (IF <<".gitignore">> \in fs_files /\ fs_files # ScenarioA
                     THEN BOOLEAN ELSE {TRUE})
    /\ gitignore \in (IF fs_files = ScenarioA THEN {ScenarioIgnore}
                      ELSE IF <<".gitignore">> \in fs_files THEN IgnoreFiles ELSE {<<>>})
    /\ ignore_spec = None
    /\ stack = <<>>
    /\ results = <<>>
    /\ visited = {}
    /\ seen = {}
    /\ wpc = "new"
    /\ ParserIdle
    /\ ClassifierIdle
    /\ SlicerIdle
    /\ ConfigIdle
    /\ WizardIdle

NextWalker == Construct \/ StartWalk \/ WalkStep \/ WalkReturn

SpecWalker == InitWalker /\ [][NextWalker]_vars

\* Both components, each started on its own input.
\* ------------------------------------------------------- the file classifier

\* str.upper() on the letters of the alphabet.
UpperChar(c) ==
    CASE c = "a" -> "A" [] c = "b" -> "B" [] c = "c" -> "C" [] c = "d" -> "D" [] c = "e" -> "E" [] c = "f" -> "F"
      [] c = "g" -> "G" [] c = "h" -> "H" [] c = "i" -> "I" [] c = "j" -> "J" [] c = "k" -> "K" [] c = "l" -> "L"
      [] c = "m" -> "M" [] c = "n" -> "N" [] c = "o" -> "O" [] c = "p" -> "P" [] c = "q" -> "Q" [] c = "r" -> "R"
      [] c = "s" -> "S" [] c = "t" -> "T" [] c = "u" -> "U" [] c = "v" -> "V" [] c = "w" -> "W" [] c = "x" -> "X"
      [] c = "y" -> "Y" [] c = "z" -> "Z"
      [] OTHER -> c

upper(s) == [i \in 1..Len(s) |-> UpperChar(s[i])]

\* Every other letter in upper case.
mixed(s) == [i \in 1..Len(s) |-> IF i % 2 = 1 THEN UpperChar(s[i]) ELSE s[i]]

\* The names classified: stems with the extensions of the classification
\* tables and some outside them, names with two dots, with a leading or a
\* trailing dot only, and the lock files; each as written, in lower, in upper
\* and in mixed case.
Stems == {<<"a">>, <<"m", "a", "i", "n">>, <<"a", ".", "b">>}

Extensions ==
    {<<".", "p", "y">>,
     <<".", "m", "d">>,
     <<".", "y", "a", "m", "l">>,
     <<".", "y", "m", "l">>,
     <<".", "t", "o", "m", "l">>,
     <<".", "j", "s", "o", "n">>,
     <<".", "c", "f", "g">>,
     <<".", "i", "n", "i">>,
     <<".", "p", "n", "g">>,
     <<".", "p", "y", "c">>,
     <<".", "s", "o">>,
     <<".", "g", "z">>,
     <<".", "l", "o", "c", "k">>,
     <<".", "t", "x", "t">>,
     <<".", "l", "o", "g">>,
     <<>>}

LockNames ==
    {<<"p", "a", "c", "k", "a", "g", "e", "-", "l", "o", "c", "k", ".", "j", "s", "o", "n">>,
     <<"y", "a", "r", "n", ".", "l", "o", "c", "k">>,
     <<"p", "o", "e", "t", "r", "y", ".", "l", "o", "c", "k">>,
     <<"P", "i", "p", "f", "i", "l", "e", ".", "l", "o", "c", "k">>,
     <<"C", "a", "r", "g", "o", ".", "l", "o", "c", "k">>}

PlainNames ==
    {st \o ext : st \in Stems, ext \in Extensions}
        \cup LockNames \cup {<<".", "p", "y">>, <<"a", ".">>, <<".", "j", "s", "o", "n">>}

ClassifierNames == UNION {{n, lower(n), upper(n), mixed(n)} : n \in PlainNames}

\* classification = self._get_classification(file_path)
Classify ==
    /\ kpc = "call"
    /\ classification' = get_classification(given_name)
    /\ kpc' = "returned"
    /\ UNCHANGED <<given_name, exceptClassifier>>

InitClassifier ==
    /\ given_name \in ClassifierNames
    /\ classification = "none"
    /\ kpc = "call"
    /\ ParserIdle
    /\ WalkerIdle
    /\ SlicerIdle
    /\ ConfigIdle
    /\ WizardIdle

NextClassifier == Classify

SpecClassifier == InitClassifier /\ [][NextClassifier]_vars

\* --------------------------------------------------------- the span slicer

\* The largest number of lines of a line array handed to _get_source_lines.
MaxRows == 3

\* The lines the arrays are made of, and the arrays.
LineTexts == {<<>>, <<"a", "b">>, <<"c">>}

LineArrays == UNION {[1..n -> LineTexts] : n \in 1..MaxRows}

\* The (row, column) positions inside a line array: a column runs from 0 to
\* the length of its line.
Positions(lines) ==
    UNION {{<<r, c>> : c \in 0..Len(lines[r + 1])} : r \in 0..(Len(lines) - 1)}

NotAfter(p, q) == p[1] < q[1] \/ (p[1] = q[1] /\ p[2] <= q[2])

\* self._get_source_lines(code_lines, start_point, end_point)
GetSourceLines ==
    /\ spc = "call"
    /\ span_text' = get_source_lines(arg_lines, arg_start, arg_end)
    /\ spc' = "returned"
    /\ UNCHANGED <<arg_lines, arg_start, arg_end, exceptSlicer>>

InitSlicer ==
    /\ arg_lines \in LineArrays
    /\ arg_start \in Positions(arg_lines)
    /\ arg_end \in {q \in Positions(arg_lines) : NotAfter(arg_start, q)}
    /\ span_text = <<>>
    /\ spc = "call"
    /\ ParserIdle
    /\ WalkerIdle
    /\ ClassifierIdle
    /\ ConfigIdle
    /\ WizardIdle

NextSlicer == GetSourceLines

SpecSlicer == InitSlicer /\ [][NextSlicer]_vars

\* ------------------------------------------------- the configuration store

\* A field value of a settings object: a str, a validated HttpUrl, a member of
\* a str-valued Enum, an int or None; the text of each is kept in val.
Str(s) == [tag |-> "str", val |-> s]
Url(s) == [tag |-> "url", val |-> s]
Member(s) == [tag |-> "enum", val |-> s]
IntValue(s) == [tag |-> "int", val |-> s]
NoneValue == [tag |-> "none", val |-> ""]

\* A plain value of the dumped data and of the loaded YAML: str, int, bool or null.
Data(tag, text) == [tag |-> tag, val |-> text]

\* HttpUrl validation of a text: the URL is normalised, a missing path becomes "/".
HttpUrl(text) ==
    Url(IF text = "http://localhost:11434" THEN "http://localhost:11434/" ELSE text)

\* GeminiSettings, OllamaSettings, VoyageSettings, bgeSettings, RetrievalSettings:
\* the fields kept are the discriminator, the model name and the fields whose
\* type is not a plain str, int, float or bool.
GeminiSettings(base_url) ==
    [provider |-> Str("gemini"), model |-> Str("gemini-3-flash-preview"), base_url |-> base_url]

OllamaSettings(base_url) ==
    [provider |-> Str("ollama"), model |-> Str("llama3.2"), base_url |-> base_url]

\* base_url : Optional[HttpUrl] = Field(default = "http://localhost:11434"): a
\* default is not validated, the field holds the str as written.
OllamaDefault == OllamaSettings(Str("http://localhost:11434"))

VoyageSettings(dimensions) ==
    [provider |-> Str("voyageai"), model |-> Str("voyage-code-3"), dimensions |-> dimensions]

bgeSettings(dimensions) ==
    [provider |-> Str("bge"), model |-> Str("BGE-M3"), dimensions |-> dimensions]

RetrievalSettings(mode) == [mode |-> Member(mode)]

\* AureliaConfig built from its fields.
MakeConfig(project_name, llm, embedding, retrieval) ==
    [project_name |-> Str(project_name), data_dir |-> Str("./data"),
     llm |-> llm, embedding |-> embedding, retrieval |-> retrieval]

\* AureliaConfig()
DefaultConfig ==
    MakeConfig("Aurelia", GeminiSettings(NoneValue), VoyageSettings(IntValue("1024")),
               RetrievalSettings("hybrid"))

\* The valid configurations handed to save_config.
ProjectNames == {"Aurelia", "Verification-Test", "123"}

LLMSettings ==
    {GeminiSettings(NoneValue), GeminiSettings(HttpUrl("https://example.com/v1")),
     OllamaDefault, OllamaSettings(HttpUrl("http://localhost:11434")),
     OllamaSettings(NoneValue)}

EmbeddingSettings ==
    {VoyageSettings(IntValue("1024")), VoyageSettings(NoneValue), bgeSettings(IntValue("1024"))}

RetrievalModes == {"similarity", "keyword", "hybrid"}

Configs ==
    {MakeConfig(n, l, e, RetrievalSettings(m)) :
        n \in ProjectNames, l \in LLMSettings, e \in EmbeddingSettings, m \in RetrievalModes}

\* config.model_dump(mode='json') on one field value: enum members and URLs
\* become their text, a str stays a str whatever the field's declared type.
DumpValue(v) ==
    CASE v.tag = "str" -> Data("str", v.val)
      [] v.tag = "url" -> Data("str", v.val)
      [] v.tag = "enum" -> Data("str", v.val)
      [] v.tag = "int" -> Data("int", v.val)
      [] v.tag = "none" -> Data("null", "")

model_dump(c) ==
    [project_name |-> DumpValue(c.project_name),
     data_dir |-> DumpValue(c.data_dir),
     llm |-> [provider |-> DumpValue(c.llm.provider), model |-> DumpValue(c.llm.model),
              base_url |-> DumpValue(c.llm.base_url)],
     embedding |-> [provider |-> DumpValue(c.embedding.provider),
                    model |-> DumpValue(c.embedding.model),
                    dimensions |-> DumpValue(c.embedding.dimensions)],
     retrieval |-> [mode |-> DumpValue(c.retrieval.mode)]]

\* The YAML resolver: the type a plain (unquoted) scalar is read as.
Resolve(text) ==
    IF text \in {"", "~", "null", "Null", "NULL"} THEN "null"
    ELSE IF text \in {"true", "false", "yes", "no", "on", "off"} THEN "bool"
    ELSE IF text \in {"123", "1024"} THEN "int"
    ELSE "str"

\* yaml.safe_dump on a scalar: a str the resolver would read as something else
\* is written in quotes, everything else plain.
DumpScalar(d) ==
    IF d.tag = "str"
    THEN [style |-> IF Resolve(d.val) = "str" THEN "plain" ELSE "quoted", text |-> d.val]
    ELSE [style |-> "plain", text |-> IF d.tag = "null" THEN "null" ELSE d.val]

\* yaml.safe_load on a scalar.
LoadScalar(s) ==
    IF s.style = "quoted" THEN Data("str", s.text)
    ELSE IF Resolve(s.text) = "null" THEN Data("null", "")
    ELSE Data(Resolve(s.text), s.text)

\* A mapping of the configuration's shape, f applied to its scalars.
MapScalars(f(_), m) ==
    [project_name |-> f(m.project_name),
     data_dir |-> f(m.data_dir),
     llm |-> [provider |-> f(m.llm.provider), model |-> f(m.llm.model),
              base_url |-> f(m.llm.base_url)],
     embedding |-> [provider |-> f(m.embedding.provider), model |-> f(m.embedding.model),
                    dimensions |-> f(m.embedding.dimensions)],
     retrieval |-> [mode |-> f(m.retrieval.mode)]]

safe_dump(data) == MapScalars(DumpScalar, data)

safe_load(doc) == MapScalars(LoadScalar, doc)

\* Validation of one loaded value against its field's type.
AsStr(d) == Str(d.val)

AsOptionalUrl(d) == IF d.tag = "null" THEN NoneValue ELSE HttpUrl(d.val)

AsOptionalInt(d) == IF d.tag = "null" THEN NoneValue ELSE IntValue(d.val)

AsMember(d) == Member(d.val)

\* Whether AureliaConfig(**data) validates.
IsValidData(data) ==
    /\ data.project_name.tag = "str" /\ data.project_name.val # ""
    /\ data.data_dir.tag = "str"
    /\ data.llm.provider.tag = "str" /\ data.llm.provider.val \in {"gemini", "ollama"}
    /\ data.llm.model.tag = "str"
    /\ data.llm.base_url.tag \in {"str", "null"}
    /\ data.embedding.provider.tag = "str"
    /\ data.embedding.provider.val \in {"voyageai", "bge"}
    /\ data.embedding.model.tag = "str"
    /\ data.embedding.dimensions.tag \in
           (IF data.embedding.provider.val = "bge" THEN {"int"} ELSE {"int", "null"})
    /\ data.retrieval.mode.tag = "str" /\ data.retrieval.mode.val \in RetrievalModes

\* AureliaConfig(**data)
AureliaConfig(data) ==
    [project_name |-> AsStr(data.project_name),
     data_dir |-> AsStr(data.data_dir),
     llm |-> [provider |-> AsStr(data.llm.provider), model |-> AsStr(data.llm.model),
              base_url |-> AsOptionalUrl(data.llm.base_url)],
     embedding |-> [provider |-> AsStr(data.embedding.provider),
                    model |-> AsStr(data.embedding.model),
                    dimensions |-> AsOptionalInt(data.embedding.dimensions)],
     retrieval |-> [mode |-> AsMember(data.retrieval.mode)]]

\* CONFIG_PATH does not exist.
NoFile == <<>>

\* save_config(config): the dumped data is written to CONFIG_PATH.
save_config ==
    /\ cpc \in {"start", "loaded"}
    /\ \E c \in Configs :
           /\ config' = <<c>>
           /\ config_file' = <<safe_dump(model_dump(c))>>
    /\ cpc' = "saved"
    /\ UNCHANGED <<loaded_config, exceptConfig>>

\* load_config(): the default configuration when CONFIG_PATH does not exist,
\* else the validated content of the file.
load_config ==
    /\ cpc \in {"start", "saved"}
    /\ IF config_file = NoFile
       THEN loaded_config' = <<DefaultConfig>> /\ cpc' = "loaded"
       ELSE LET data == safe_load(config_file[1])
            IN  IF IsValidData(data)
                THEN loaded_config' = <<AureliaConfig(data)>> /\ cpc' = "loaded"
                ELSE loaded_config' = loaded_config /\ cpc' = "raised"
    /\ UNCHANGED <<config_file, config, exceptConfig>>

InitConfig ==
    /\ config_file = NoFile
    /\ config = <<>>
    /\ loaded_config = <<>>
    /\ cpc = "start"
    /\ ParserIdle
    /\ WalkerIdle
    /\ ClassifierIdle
    /\ SlicerIdle
    /\ WizardIdle

NextConfig == save_config \/ load_config

SpecConfig == InitConfig /\ [][NextConfig]_vars

\* --------------------------------------------------------- the init wizard

\* How many lines a yes/no prompt rejects before it gets a valid one.
MaxInvalid == 2

\* The lines typed at a yes/no prompt.
Lines ==
    {<<>>, <<" ">>, <<"y">>, <<"Y">>, <<"y", "e", "s">>, <<" ", "Y", "e", "s", " ">>,
     <<"n">>, <<"N", "O">>, <<"n", "o">>, <<"y", "e", "s", "s">>, <<"o", "k">>}

\* str.strip() on blanks.
RECURSIVE lstrip(_)
lstrip(s) == IF s # <<>> /\ Head(s) = " " THEN lstrip(Tail(s)) ELSE s

RECURSIVE rstrip(_)
rstrip(s) == IF s # <<>> /\ s[Len(s)] = " " THEN rstrip(SubSeq(s, 1, Len(s) - 1)) ELSE s

strip(s) == rstrip(lstrip(s))

\* confirm_yes_no taking a line it cannot read for the default.
confirm_yes_no_lenient(line, default) ==
    LET a == lower(strip(line))
    IN  IF a \in {<<"y">>, <<"y", "e", "s">>} THEN "yes"
        ELSE IF a \in {<<"n">>, <<"n", "o">>} THEN "no"
        ELSE IF default THEN "yes" ELSE "no"

\* One pass of confirm_yes_no's loop on the line read: "yes" (return True),
\* "no" (return False) or "again" (warning, next pass).
confirm_yes_no(line, default) ==
    LET a == lower(strip(line))
    IN  IF a = <<>> THEN (IF default THEN "yes" ELSE "no")
        ELSE IF a \in {<<"y">>, <<"y", "e", "s">>} THEN "yes"
        ELSE IF a \in {<<"n">>, <<"n", "o">>} THEN "no"
        ELSE "again"

\* The texts given for the Ollama base URL (the default when the line is
\* empty), and whether HttpUrl validation accepts a text.
UrlAnswers == {"http://localhost:11434", "https://example.com/v1", "localhost"}

IsHttpUrl(text) == text \in {"http://localhost:11434", "https://example.com/v1"}

\* What CONFIG_PATH may hold when the wizard starts.
StoredConfigs ==
    {NoFile,
     <<safe_dump(model_dump(DefaultConfig))>>,
     <<safe_dump(model_dump(MakeConfig("Verification-Test", OllamaDefault,
                                       bgeSettings(IntValue("1024")),
                                       RetrievalSettings("hybrid"))))>>}

\* print_banner(console); if CONFIG_PATH.exists(): ...
WizardStart ==
    /\ zpc = "start"
    /\ zpc' = IF config_file # NoFile THEN "ask_reconfigure" ELSE "gather"
    /\ UNCHANGED <<config_file, answer, invalid, built, writes, stored_before, exceptWizard>>

\* One line read by confirm_yes_no(console, "Configuration already exists.
\* Reconfigure?", default=False).
AskReconfigure ==
    /\ zpc = "ask_reconfigure"
    /\ \E line \in Lines :
           LET r == confirm_yes_no(line, FALSE)
           IN  /\ r = "again" => invalid < MaxInvalid
               /\ answer' = <<line>>
               /\ invalid' = IF r = "again" THEN invalid + 1 ELSE invalid
               /\ zpc' = CASE r = "yes" -> "gather"
                           [] r = "no" -> "cancelled"
                           [] r = "again" -> "ask_reconfigure"
    /\ UNCHANGED <<config_file, built, writes, stored_before, exceptWizard>>

\* build_llm_settings, build_embedding_settings and the settings objects built
\* from the answers; an Ollama base URL that is no URL raises a validation error.
Gather ==
    /\ zpc = "gather"
    /\ \E llm_choice \in {1, 2}, base_url \in UrlAnswers, embedding_choice \in {1, 2} :
           IF llm_choice = 2 /\ ~IsHttpUrl(base_url)
           THEN zpc' = "raised" /\ UNCHANGED <<answer, invalid, built>>
           ELSE LET llm == IF llm_choice = 1 THEN GeminiSettings(NoneValue)
                           ELSE OllamaSettings(HttpUrl(base_url))
                    embedding == IF embedding_choice = 1 THEN VoyageSettings(IntValue("1024"))
                                 ELSE bgeSettings(IntValue("1024"))
                IN  /\ built' = <<MakeConfig("Aurelia", llm, embedding,
                                             RetrievalSettings("hybrid"))>>
                    /\ answer' = <<>>
                    /\ invalid' = 0
                    /\ zpc' = "ask_save"
    /\ UNCHANGED <<config_file, writes, stored_before, exceptWizard>>

\* One line read by confirm_yes_no(console, "Save this configuration?", default=True).
AskSave ==
    /\ zpc = "ask_save"
    /\ \E line \in Lines :
           LET r == confirm_yes_no(line, TRUE)
           IN  /\ r = "again" => invalid < MaxInvalid
               /\ answer' = <<line>>
               /\ invalid' = IF r = "again" THEN invalid + 1 ELSE invalid
               /\ zpc' = CASE r = "yes" -> "save"
                           [] r = "no" -> "not_saved"
                           [] r = "again" -> "ask_save"
    /\ UNCHANGED <<config_file, built, writes, stored_before, exceptWizard>>

\* input() raises EOFError: the run ends in the exception.
EndOfInput ==
    /\ zpc \in {"ask_reconfigure", "ask_save"}
    /\ zpc' = "raised"
    /\ UNCHANGED <<config_file, answer, invalid, built, writes, stored_before, exceptWizard>>

\* save_config(config); print_success(...)
WizardSave ==
    /\ zpc = "save"
    /\ config_file' = <<safe_dump(model_dump(built[1]))>>
    /\ writes' = writes + 1
    /\ zpc' = "done"
    /\ UNCHANGED <<answer, invalid, built, stored_before, exceptWizard>>

InitWizard ==
    /\ config_file \in StoredConfigs
    /\ stored_before = config_file
    /\ config = <<>>
    /\ loaded_config = <<>>
    /\ cpc = "idle"
    /\ zpc = "start"
    /\ answer = <<>>
    /\ invalid = 0
    /\ built = <<>>
    /\ writes = 0
    /\ ParserIdle
    /\ WalkerIdle
    /\ ClassifierIdle
    /\ SlicerIdle

NextWizard == WizardStart \/ AskReconfigure \/ Gather \/ AskSave \/ EndOfInput \/ WizardSave

SpecWizard == InitWizard /\ [][NextWizard]_vars

Init ==
    InitParser \/ InitWalker \/ InitClassifier \/ InitSlicer \/ InitConfig \/ InitWizard

Next ==
    NextParser \/ NextWalker \/ NextClassifier \/ NextSlicer \/ NextConfig \/ NextWizard

Spec == Init /\ [][Next]_vars

\* ------------------------------------------------------ properties of walk

WalkReturned == wpc = "returned"

\* The root-relative parts of an absolute path below the root.
BelowRoot(path) == SubSeq(path, Len(repo_root) + 1, Len(path))

\* A directory name the walker never descends into.
IsPrunedName(d) == StartsWithDot(Spell(d)) \/ d \in ALWAYS_IGNORE_DIRS

\* C9: no file under a directory (below the root, at any depth) whose name is in
\* the always-ignore set is in the inventory, whatever the ignore file holds;
\* and no file the ignore file matches is in the inventory, whatever its
\* classification would be.
C9_HardcodedThenIgnoreFile ==
    \A i \in 1..Len(results) :
        LET rel == BelowRoot(results[i].absolute_path)
        IN  /\ \A j \in 1..(Len(rel) - 1) : rel[j] \notin ALWAYS_IGNORE_DIRS
            /\ ignore_spec # None => ~match_file(ignore_spec, results[i].relative_path)

\* C9 witness: the ignore file re-includes a.py with a negation, a.py lies under
\* build/ and is left out, while the a.py next to it is returned.
C9_Witness ==
    /\ WalkReturned
    /\ repo_root = <<"/", "home", "repo">>
    /\ fs_files = {<<".gitignore">>, <<"build", "a.py">>}
    /\ gitignore = <<"*.py", "!a.py">>
    /\ ignore_spec # None
    /\ ~match_file(ignore_spec, Spell("build") \o <<"/">> \o Spell("a.py"))
    /\ results = <<>>

\* C10: a directory below the root whose name starts with "." or is in the
\* always-ignore set is never listed by the traversal, and nothing beneath it
\* ever appears in a listing (the directory itself is only an entry of its
\* parent's listing).
C10_PrunedBeforeDescent ==
    /\ \A d \in visited : \A j \in 1..Len(BelowRoot(d)) : ~IsPrunedName(BelowRoot(d)[j])
    /\ \A e \in seen : \A j \in 1..(Len(BelowRoot(e)) - 1) : ~IsPrunedName(BelowRoot(e)[j])

\* C10 witness: the walk is over, build/ and .cache/ hold files (build/ a
\* sub-directory too), and neither was listed.
C10_Witness ==
    /\ WalkReturned
    /\ fs_files = {<<"build", "pkg", "a.py">>, <<".cache", "a.py">>}
    /\ repo_root \o <<"build">> \in seen
    /\ repo_root \o <<".cache">> \in seen
    /\ visited = {repo_root}

\* Whether the ignore file matches the directory with the root-relative parts
\* rel, given to the matcher as a directory path (with its trailing "/").
DirIgnored(rel) ==
    /\ ignore_spec # None
    /\ match_file(ignore_spec, rel_path_str(repo_root \o rel, repo_root) \o <<"/">>)

\* C11: a directory whose root-relative path the ignore file matches is never
\* listed by the traversal, nor is any directory beneath it, and no file
\* beneath it is in the inventory, even when a later negation pattern of the
\* ignore file names a file inside it.
C11_IgnoredSubtreePruned ==
    /\ \A d \in visited :
           \A j \in 1..Len(BelowRoot(d)) : ~DirIgnored(SubSeq(BelowRoot(d), 1, j))
    /\ \A i \in 1..Len(results) :
           LET rel == BelowRoot(results[i].absolute_path)
           IN  \A j \in 1..(Len(rel) - 1) : ~DirIgnored(SubSeq(rel, 1, j))

\* -------------------------------------------- properties of _get_classification

Classified == kpc = "returned"

\* The first-match-wins table, name and extension compared without regard to
\* letter case.
SameIgnoringCase(a, b) == lower(a) = lower(b)

ConfigExtensions ==
    {<<".", "y", "a", "m", "l">>, <<".", "y", "m", "l">>, <<".", "t", "o", "m", "l">>,
     <<".", "j", "s", "o", "n">>, <<".", "c", "f", "g">>, <<".", "i", "n", "i">>}

IsLockName(name) == \E l \in LOCK_FILES : SameIgnoringCase(name, l)

ClassificationTable(name) ==
    LET ext == suffix(name)
    IN  IF IsLockName(name) \/ (\E b \in BINARY_EXTENSIONS : SameIgnoringCase(ext, b))
        THEN SKIP
        ELSE IF SameIgnoringCase(ext, <<".", "p", "y">>) THEN PARSE
        ELSE IF SameIgnoringCase(ext, <<".", "m", "d">>) THEN MARKDOWN
        ELSE IF \E c \in ConfigExtensions : SameIgnoringCase(ext, c) THEN CONFIG
        ELSE SKIP

\* C12: the classification returned is the one of the first-match-wins table
\* read case-insensitively; a lock-file name in any letter case is Skip (never
\* Config); and every name that differs from the given one only in letter case
\* is classified alike.
C12_ClassificationTable ==
    Classified =>
        /\ classification \in {PARSE, MARKDOWN, CONFIG, SKIP}
        /\ classification = ClassificationTable(given_name)
        /\ IsLockName(given_name) => classification = SKIP
        /\ \A other \in ClassifierNames :
               SameIgnoringCase(other, given_name) =>
                   get_classification(other) = classification

\* C12 witness: PACKAGE-LOCK.JSON, whose extension alone would make it Config,
\* was classified Skip.
C12_Witness ==
    /\ Classified
    /\ given_name = upper(<<"p", "a", "c", "k", "a", "g", "e", "-", "l", "o", "c", "k", ".",
                           "j", "s", "o", "n">>)
    /\ classification = SKIP

\* C13: every relative_path of the inventory is a descendant path of the root:
\* its "/"-separated components are the names from the root down to the file,
\* it holds no backslash, does not begin with "../" and does not begin with "/".
C13_RelativePathDescendant ==
    \A i \in 1..Len(results) :
        LET p == results[i].relative_path
            rel == BelowRoot(results[i].absolute_path)
        IN  /\ p # <<>>
            /\ p[1] # "/"
            /\ ~(Len(p) >= 3 /\ SubSeq(p, 1, 3) = <<".", ".", "/">>)
            /\ \A k \in 1..Len(p) : p[k] # "\\"
            /\ SplitPath(p, <<>>, <<>>) = [j \in 1..Len(rel) |-> Spell(rel[j])]

\* C14: when the given path is missing or is not a directory, the walker is
\* never constructed: the constructor ends in the invalid-root error, no walk
\* starts, no directory is listed and no inventory entry exists.
C14_InvalidRootFails ==
    root_kind # "dir" =>
        /\ wpc \in {"new", "invalid"}
        /\ stack = <<>>
        /\ visited = {}
        /\ seen = {}
        /\ results = <<>>

\* C14 witness: the constructor was given a path that is a file and raised.
C14_Witness ==
    /\ root_kind = "file"
    /\ wpc = "invalid"
    /\ results = <<>>

\* The root has no ignore file, or one that cannot be read, or an empty one.
NoUsableIgnoreFile ==
    \/ <<".gitignore">> \notin fs_files
    \/ ~readable
    \/ gitignore = <<>>

\* The files (root-relative parts) left by the hardcoded exclusions alone: no
\* directory on the way down is pruned by name, and the file's absolute path
\* passes the explicit check.
HardcodedOnly ==
    {f \in fs_files :
        /\ \A j \in 1..(Len(f) - 1) : ~IsPrunedName(f[j])
        /\ ~is_explicitly_ignored(repo_root \o f)}

\* C15: with no ignore file, an unreadable one or an empty one, a directory
\* root still yields a walker, its matcher matches nothing, and the finished
\* walk returns, once each, exactly the files the hardcoded exclusions leave:
\* the same inventory in the three cases.
C15_FailOpen ==
    (root_kind = "dir" /\ NoUsableIgnoreFile) =>
        /\ wpc # "invalid"
        /\ wpc # "new" => \A f \in fs_files : ~IgnoredBySpec(ignore_spec, rel_path_str(repo_root \o f, repo_root))
        /\ WalkReturned =>
               /\ {results[i].absolute_path : i \in 1..Len(results)}
                      = {repo_root \o f : f \in HardcodedOnly}
               /\ Len(results) = Cardinality(HardcodedOnly)

\* C15 witness: the ignore file holds "*.py" but cannot be read, and the walk
\* returned a.py.
C15_Witness ==
    /\ WalkReturned
    /\ repo_root = <<"/", "home", "repo">>
    /\ fs_files = {<<".gitignore">>, <<"a.py">>}
    /\ gitignore = <<"*.py">>
    /\ ~readable
    /\ Len(results) = 1
    /\ results[1].absolute_path = repo_root \o <<"a.py">>

\* ------------------------------------- further properties of extract_chunks

\* A root child that is, after decorator resolution, a definition without a
\* child in its field 'name'.
IsNamelessDef(child) == IsDefChild(child) /\ InnerDefinition(child).name_node = None

\* C16: a top-level definition without a name child does not abort the
\* extraction: while the loop runs, every definition already passed has its
\* chunk, and the chunk of a nameless function (class) carries the placeholder
\* 'unknown_function' ('unknown_class'); the loop goes on over the children
\* that follow.
C16_PlaceholderName ==
    /\ pc # "raised"
    /\ pc \in {"loop", "done"} =>
           /\ Len(DefChunks) = DefRank(idx - 1)
           /\ \A n \in 1..(idx - 1) :
                  LET child == RootChildren[n]
                      chunk == DefChunks[DefRank(n)]
                  IN  IsNamelessDef(child) =>
                          /\ chunk.type = (IF InnerDefinition(child).type = "function_definition"
                                           THEN FUNCTION_T ELSE CLASS_T)
                          /\ chunk.name = (IF InnerDefinition(child).type = "function_definition"
                                           THEN <<"unknown_function">> ELSE <<"unknown_class">>)
                          /\ chunk.start_line = child.start_point[1] + 1

\* C16 witness: a nameless function, a nameless class and a function came in
\* this order, and three chunks were returned, the last one named "f".
C16_Witness ==
    /\ Returned
    /\ items = <<"FuncNoName", "ClassNoName", "FuncDef">>
    /\ Len(chunks) = 3
    /\ chunks[1].name = <<"unknown_function">>
    /\ chunks[2].name = <<"unknown_class">>
    /\ chunks[3].name = <<"f">>

\* C17: the chunks returned are one Function or Class chunk per root child that
\* is (after decorator resolution) a definition, in document order and of the
\* definition's kind, plus one Module chunk if some root child is orphan code:
\* nothing is emitted for a nested definition, and every type is Module, Class
\* or Function. The sample of one import, one global assignment, one function
\* and one class with a method yields Module, Function, Class in this order.
C17_TopLevelOnly ==
    Returned =>
        /\ Len(chunks) = Len(DefChildren) + (IF OrphanChildren # <<>> THEN 1 ELSE 0)
        /\ \A i \in 1..Len(chunks) : chunks[i].type \in {MODULE_T, CLASS_T, FUNCTION_T}
        /\ Len(DefChunks) = Len(DefChildren)
        /\ \A k \in 1..Len(DefChildren) :
               /\ DefChunks[k].start_line = DefChildren[k].start_point[1] + 1
               /\ DefChunks[k].end_line = DefChildren[k].end_point[1] + 1
               /\ DefChunks[k].type =
                      (IF InnerDefinition(DefChildren[k]).type = "function_definition"
                       THEN FUNCTION_T ELSE CLASS_T)
        /\ items \in ScenarioPrograms =>
               [i \in 1..Len(chunks) |-> chunks[i].type] = <<MODULE_T, FUNCTION_T, CLASS_T>>

\* C17 witness: the sample was extracted; its class holds a method, and three
\* chunks came back.
C17_Witness ==
    /\ Returned
    /\ items = ScenarioB
    /\ \E n \in 1..Len(RootChildren) :
           /\ RootChildren[n].type = "class_definition"
           /\ \E m \in 1..Len(AllNodes(tree)) :
                  /\ AllNodes(tree)[m].type = "function_definition"
                  /\ AllNodes(tree)[m].start_point[1] > RootChildren[n].start_point[1]
    /\ Len(chunks) = 3
    /\ chunks[2].name = <<"f">>
    /\ chunks[3].name = <<"A">>

\* The number of inventory entries with the classification c.
CountOf(c) == Cardinality({i \in 1..Len(results) : results[i].classification = c})

\* Whether a path (its parts) touches what the scenario excludes.
TouchesExcluded(parts) ==
    \/ \E j \in 1..Len(parts) : parts[j] \in {"ignored_folder", ".git", "__pycache__", "secret.key"}
    \/ suffix(Spell(parts[Len(parts)])) = <<".", "l", "o", "g">>

\* C18: for a root holding the mock repository of the walker test, the
\* finished walk returns exactly 8 entries: 2 Parse, 1 Markdown, 2 Config and
\* 3 Skip, none of them touching ignored_folder, .git, __pycache__, secret.key
\* or a .log file.
C18_ScenarioA ==
    (WalkReturned /\ fs_files = ScenarioA /\ gitignore = ScenarioIgnore) =>
        /\ Len(results) = 8
        /\ CountOf(PARSE) = 2
        /\ CountOf(MARKDOWN) = 1
        /\ CountOf(CONFIG) = 2
        /\ CountOf(SKIP) = 3
        /\ \A i \in 1..Len(results) : ~TouchesExcluded(BelowRoot(results[i].absolute_path))

\* ------------------------------------------- properties of _get_source_lines

Sliced == spc = "returned"

\* The text the line array stands for, and the offset of a position in it.
ArrayText == Join(arg_lines, NL)

RECURSIVE OffsetOfRow(_)
OffsetOfRow(r) == IF r = 0 THEN 0 ELSE OffsetOfRow(r - 1) + Len(arg_lines[r]) + 1

OffsetOf(pt) == OffsetOfRow(pt[1]) + pt[2]

\* C20: for a span inside the line array, the text returned is the substring
\* of the array's text from the start position up to the end position: the
\* columns [start_col, end_col) of the line for a same-row span; the first
\* line from start_col, the interior lines in full and the last line up to
\* end_col, joined by single newlines, for a multi-row span.
C20_SpanExact ==
    Sliced =>
        /\ span_text = SubSeq(ArrayText, OffsetOf(arg_start) + 1, OffsetOf(arg_end))
        /\ Len(span_text) = OffsetOf(arg_end) - OffsetOf(arg_start)
        /\ arg_start[1] = arg_end[1] =>
               span_text = SubSeq(arg_lines[arg_start[1] + 1], arg_start[2] + 1, arg_end[2])

\* C20 witness: a span from the middle of the first line to the middle of the
\* third returned the tail, the whole second line and the head.
C20_Witness ==
    /\ Sliced
    /\ arg_lines = << <<"a", "b">>, <<"c">>, <<"a", "b">> >>
    /\ arg_start = <<0, 1>>
    /\ arg_end = <<2, 1>>
    /\ span_text = <<"b", NL, "c", NL, "a">>

\* ------------------------------------------- properties of the configuration

\* C19: load_config after save_config(c) returns a configuration whose field
\* values are those of c, and load_config with no file at CONFIG_PATH returns
\* the default configuration; neither raises.
C19_RoundTrip ==
    /\ cpc # "raised"
    /\ (cpc = "loaded" /\ config_file # NoFile) => loaded_config = config
    /\ (cpc = "loaded" /\ config_file = NoFile) => loaded_config = <<DefaultConfig>>

\* ------------------------------------------- properties of the Module chunk

\* C21: the Module chunk's content is the texts of all orphan root children (and
\* of no definition), in document order, joined by single newlines; its name
\* is 'module_level'; its start_line is the first orphan's start line and its
\* end_line the last orphan's end line.
C21_ModuleAggregation ==
    (Returned /\ OrphanChildren # <<>>) =>
        /\ Len(ModuleChunks) = 1
        /\ ModuleChunks[1].content =
               Join([k \in 1..Len(OrphanChildren) |->
                        Reslice(OrphanChildren[k].start_point, OrphanChildren[k].end_point)], NL)
        /\ ModuleChunks[1].name = <<"module_level">>
        /\ ModuleChunks[1].start_line = OrphanChildren[1].start_point[1] + 1
        /\ ModuleChunks[1].end_line = OrphanChildren[Len(OrphanChildren)].end_point[1] + 1

\* ------------------------------------------------ properties of the inventory

\* The root-relative path of a file, its names joined by "/".
RelativePath(f) == Join([j \in 1..Len(f) |-> Spell(f[j])], "/")

\* How often the file with the root-relative parts f is in the inventory.
TimesReturned(f) ==
    Cardinality({i \in 1..Len(results) : results[i].absolute_path = repo_root \o f})

\* The root's ignore file matches the file's relative path.
MatchedByRootIgnoreFile(f) ==
    ignore_spec # None /\ match_file(ignore_spec, RelativePath(f))

\* The characterization: no directory on the way down has a name that is
\* pruned, the file is not named .gitignore or .git, and the root's ignore
\* file does not match it.
Characterized(f) ==
    /\ \A j \in 1..(Len(f) - 1) : ~IsPrunedName(f[j])
    /\ f[Len(f)] \notin {".gitignore", ".git"}
    /\ ~MatchedByRootIgnoreFile(f)

\* C22: when walk has returned, a file below the root is in the inventory
\* exactly once, with the classifier's classification, if and only if it is
\* characterized as above; every entry is such a file; an ignore file deeper in
\* the tree is not in the inventory and has no effect on it.
C22_InventoryCharacterization ==
    WalkReturned =>
        /\ \A f \in fs_files : TimesReturned(f) = (IF Characterized(f) THEN 1 ELSE 0)
        /\ \A i \in 1..Len(results) :
               /\ BelowRoot(results[i].absolute_path) \in fs_files
               /\ results[i].classification =
                      get_classification(Spell(results[i].absolute_path[
                                                   Len(results[i].absolute_path)]))

\* The inventory as (relative_path, classification) pairs.
Entries == {<<results[i].relative_path, results[i].classification>> : i \in 1..Len(results)}

\* What the walker's rules yield when they are applied to the names below the
\* root only: a value of the tree and the root's ignore file, not of the
\* root's location.
LocalEntries ==
    {<<rel_path_str(<<"/">> \o f, <<"/">>), get_classification(Spell(f[Len(f)]))>> :
        f \in {g \in fs_files :
                  /\ \A j \in 1..(Len(g) - 1) : ~IsPrunedName(g[j])
                  /\ ~is_explicitly_ignored(g)
                  /\ ~IgnoredBySpec(ignore_spec, rel_path_str(<<"/">> \o g, <<"/">>))}}

\* C23: the inventory is the one the rules yield on the names below the root,
\* wherever the root lies: neither the root's own name nor the name of one of
\* its ancestors changes the set of (relative_path, classification) entries.
C23_RootLocationIndependent == WalkReturned => Entries = LocalEntries

\* ------------------------------------------------ properties of the wizard

\* The last line read at the current prompt, as confirm_yes_no compares it.
Answered == IF answer = <<>> THEN <<"-">> ELSE lower(strip(answer[1]))

SaidYes == Answered \in {<<"y">>, <<"y", "e", "s">>}

SaidNo == Answered \in {<<"n">>, <<"n", "o">>}

SaidNothing == answer # <<>> /\ Answered = <<>>

\* C24: a run of the wizard writes the stored configuration at most once, and
\* only once the final prompt was answered yes or with the empty line; a run
\* that ends because the user declined to reconfigure an existing
\* configuration, or answered no to the final prompt, leaves the stored
\* configuration as it was; and a yes/no prompt is left only on an empty line,
\* y/yes or n/no, every other line making it ask again.
C24_SaveOnlyAfterYes ==
    /\ writes <= 1
    /\ writes = 1 => (zpc = "done" /\ (SaidYes \/ SaidNothing))
    /\ config_file # stored_before => writes = 1
    /\ zpc \in {"cancelled", "not_saved", "raised"} =>
           (writes = 0 /\ config_file = stored_before)
    /\ zpc = "cancelled" => (stored_before # NoFile /\ (SaidNo \/ SaidNothing))
    /\ zpc = "not_saved" => SaidNo
    /\ zpc \in {"save", "done"} => (SaidYes \/ SaidNothing)
    /\ (zpc \in {"ask_reconfigure", "ask_save"} /\ answer # <<>>) =>
           ~(SaidYes \/ SaidNo \/ SaidNothing)

\* C24 witness: a configuration existed, the user chose to reconfigure, one
\* line at the final prompt was rejected, the empty line then saved, and the
\* stored configuration changed.
C24_Witness ==
    /\ zpc = "done"
    /\ stored_before # NoFile
    /\ config_file # stored_before
    /\ writes = 1
    /\ invalid = 1
    /\ answer = << <<>> >>

====
